---- MODULE Spec2Model ----
(***************************************************************************)
(* Backend supervisor of the dashboard shell (src-tauri/src/lib.rs).       *)
(*                                                                         *)
(* Three threads of control share the atomic flag BACKEND_READY and the    *)
(* event emitter of the application handle:                                *)
(*   - the setup closure of run(), which calls spawn_backend and then      *)
(*     starts the health-poll task;                                        *)
(*   - the output-monitor task started by spawn_backend, which drains the  *)
(*     child's event channel rx;                                           *)
(*   - the health-poll task, which runs wait_for_backend_ready and then    *)
(*     publishes the outcome.                                              *)
(* Every atomic store and every emit is a step of its own, so that the     *)
(* two background tasks interleave as they do on the multi-threaded        *)
(* runtime.  The child process and the health endpoint are environment.   *)
(***************************************************************************)
EXTENDS Integers, Sequences, FiniteSets, TLC

VARIABLES
    BACKEND_READY,  \* static AtomicBool
    emitted,        \* payloads passed to app_handle.emit, per event name
    setupPc,        \* position of the setup closure of run()
    spawnResult,    \* value returned by spawn_backend
    child,          \* the sidecar process: "none", "running", "exited"
    childCode,      \* exit code of the sidecar (Option<i32>) once exited
    produced,       \* number of events the sidecar has put on the channel
    rx,             \* the channel of CommandEvents read by the monitor
    monPc,          \* position of the output-monitor task
    cur,            \* the monitor's local `event`
    pollPc,         \* position of the health-poll task
    attempt,        \* loop variable of wait_for_backend_ready
    requests,       \* number of GET /health requests sent so far
    healthOk,       \* attempt at which the endpoint answered 2xx (0: none yet)
    created,        \* how often spawn_backend ran, started a child, a monitor
    reply           \* what the last command invoked by the frontend returned

vars == << BACKEND_READY, emitted, setupPc, spawnResult, child, childCode,
           produced, rx, monPc, cur, pollPc, attempt, requests, healthOk,
           created, reply >>

(***************************************************************************)
(* Bounds of the model.                                                    *)
(***************************************************************************)
MaxOutputs == 2     \* events the sidecar produces besides its exit notice
MaxQueue == 1       \* events waiting in rx at any one time

(***************************************************************************)
(* Program constants.                                                      *)
(***************************************************************************)
MaxAttempts == 30

BACKEND_PORT == "8765"

\* Option<i32>: <<>> is None, <<c>> is Some(c).
None == << >>
Some(c) == << c >>
ExitCodes == { None, Some(1) }

(***************************************************************************)
(* Text.  A raw output line is a sequence of chunks: a chunk is either a   *)
(* run of valid UTF-8 text or the byte 0xFF, which is valid in no UTF-8    *)
(* sequence.                                                               *)
(***************************************************************************)
InvalidByte == "<0xFF>"
ReplacementChar == "<U+FFFD>"

RECURSIVE from_utf8_lossy(_)
from_utf8_lossy(bytes) ==
    IF bytes = << >> THEN ""
    ELSE (IF Head(bytes) = InvalidByte THEN ReplacementChar ELSE Head(bytes))
            \o from_utf8_lossy(Tail(bytes))

\* str::contains
contains(s, pat) ==
    \E i \in 1..(Len(s) - Len(pat) + 1) : SubSeq(s, i, i + Len(pat) - 1) = pat

\* Variant: the port of the dev server instead of BACKEND_PORT.
format_url_dev_port(scheme) == scheme \o "://localhost:" \o "8000"

format_url(scheme) == scheme \o "://localhost:" \o BACKEND_PORT

get_backend_url == format_url("http")

get_ws_url == format_url("ws")

health_url == format_url("http") \o "/health"

is_backend_ready == BACKEND_READY

\* Variant: only the first marker is looked for.
IsReadyLineUvicornOnly(line_str) ==
    contains(line_str, "Uvicorn running")

\* The readiness test applied to a decoded stdout/stderr line.
IsReadyLine(line_str) ==
    contains(line_str, "Uvicorn running")
        \/ contains(line_str, "Application startup complete")

(***************************************************************************)
(* CommandEvent, the items of the channel rx.                              *)
(***************************************************************************)
Stdout(line) == [kind |-> "Stdout", line |-> line, code |-> None]
Stderr(line) == [kind |-> "Stderr", line |-> line, code |-> None]
Error(err) == [kind |-> "Error", line |-> << err >>, code |-> None]
Terminated(code) == [kind |-> "Terminated", line |-> << >>, code |-> code]
NoEvent == [kind |-> "NoEvent", line |-> << >>, code |-> None]

\* Lines the sidecar (a uvicorn server) writes.
LineUvicorn == << "INFO:     Uvicorn running on http://127.0.0.1:8765" >>
LineStartup == << "INFO:     Application startup complete." >>
LineStarted == << "INFO:     Started server process [4242]" >>
LineBroken == << "INFO:     Uvicorn ", InvalidByte, "running" >>

\* What the sidecar puts on the channel: stdout and stderr lines with and
\* without a marker, and an I/O error whose text happens to hold a marker.
OutputEvents ==
    { Stdout(LineUvicorn), Stdout(LineStarted), Stdout(LineBroken),
      Stderr(LineStartup), Stderr(LineStarted),
      Error("Uvicorn running: broken pipe") }

SpawnOutcomes == { "Ok", "ErrSidecar", "ErrSpawn" }

\* Answers of GET /health: 2xx, another status, a transport error or timeout.
Responses == { "success", "status", "error" }

Emit(name, payload) == [emitted EXCEPT ![name] = Append(@, payload)]

Count(name) == Len(emitted[name])

\* The value a command hands back to the frontend; a bool goes out as JSON.
json_bool(b) == IF b THEN "true" ELSE "false"

Reply(cmd, value) == [cmd |-> cmd, value |-> value]

NoReply == Reply("none", "")

(***************************************************************************)
(* Initial state: process start, before the setup closure runs.            *)
(***************************************************************************)
Init ==
    /\ BACKEND_READY = FALSE
    /\ emitted = [ready |-> << >>, failed |-> << >>, terminated |-> << >>]
    /\ setupPc = "spawn"
    /\ spawnResult = "none"
    /\ child = "none"
    /\ childCode = None
    /\ produced = 0
    /\ rx = << >>
    /\ monPc = "none"
    /\ cur = NoEvent
    /\ pollPc = "none"
    /\ attempt = 0
    /\ requests = 0
    /\ healthOk = 0
    /\ created = [calls |-> 0, children |-> 0, monitors |-> 0]
    /\ reply = NoReply

(***************************************************************************)
(* run(): the setup closure.                                               *)
(***************************************************************************)
\* Variant: a failed spawn is tried again.
SpawnBackendRetry(outcome) ==
    /\ setupPc = "spawn"
    /\ spawnResult' = outcome
    /\ IF outcome = "Ok"
         THEN /\ child' = "running"
              /\ monPc' = "recv"
              /\ created' = [calls |-> created.calls + 1,
                             children |-> created.children + 1,
                             monitors |-> created.monitors + 1]
              /\ setupPc' = "start_poll"
         ELSE /\ UNCHANGED << child, monPc, setupPc >>
              /\ created' = [created EXCEPT !.calls = @ + 1]
    /\ UNCHANGED reply
    /\ UNCHANGED << BACKEND_READY, emitted, childCode, produced, rx, cur,
                    pollPc, attempt, requests, healthOk >>

\* spawn_backend: on Ok the child runs and the monitor task is started; on
\* either error the function returns before anything is created.
SpawnBackend(outcome) ==
    /\ setupPc = "spawn"
    /\ spawnResult' = outcome
    /\ IF outcome = "Ok"
         THEN /\ child' = "running"
              /\ monPc' = "recv"
              /\ created' = [calls |-> created.calls + 1,
                             children |-> created.children + 1,
                             monitors |-> created.monitors + 1]
         ELSE /\ UNCHANGED << child, monPc >>
              /\ created' = [created EXCEPT !.calls = @ + 1]
    /\ setupPc' = "start_poll"
    /\ UNCHANGED reply
    /\ UNCHANGED << BACKEND_READY, emitted, childCode, produced, rx, cur,
                    pollPc, attempt, requests, healthOk >>

\* Variant: the error of spawn_backend is propagated out of the closure.
StartPollIfSpawned ==
    /\ spawnResult = "Ok"
    /\ setupPc = "start_poll"
    /\ pollPc' = "request"
    /\ attempt' = 1
    /\ setupPc' = "done"
    /\ UNCHANGED << created, reply >>
    /\ UNCHANGED << BACKEND_READY, emitted, spawnResult, child, childCode,
                    produced, rx, monPc, cur, requests, healthOk >>

\* The match on spawn_backend's result only logs; the poll task is started
\* in both arms and the closure returns Ok(()).
StartPoll ==
    /\ setupPc = "start_poll"
    /\ pollPc' = "request"
    /\ attempt' = 1
    /\ setupPc' = "done"
    /\ UNCHANGED << created, reply >>
    /\ UNCHANGED << BACKEND_READY, emitted, spawnResult, child, childCode,
                    produced, rx, monPc, cur, requests, healthOk >>

(***************************************************************************)
(* The sidecar process and its event channel (environment).                *)
(***************************************************************************)
ChildOutput(ev) ==
    /\ child = "running"
    /\ produced < MaxOutputs
    /\ Len(rx) < MaxQueue
    /\ rx' = Append(rx, ev)
    /\ produced' = produced + 1
    /\ UNCHANGED << created, reply >>
    /\ UNCHANGED << BACKEND_READY, emitted, setupPc, spawnResult, child,
                    childCode, monPc, cur, pollPc, attempt, requests, healthOk >>

ChildExit(code) ==
    /\ child = "running"
    /\ Len(rx) < MaxQueue
    /\ child' = "exited"
    /\ childCode' = code
    /\ rx' = Append(rx, Terminated(code))
    /\ UNCHANGED << created, reply >>
    /\ UNCHANGED << BACKEND_READY, emitted, setupPc, spawnResult, produced,
                    monPc, cur, pollPc, attempt, requests, healthOk >>

\* A line still buffered by a stream reader when the exit notice was sent.
LateOutput(ev) ==
    /\ child = "exited"
    /\ produced < MaxOutputs
    /\ Len(rx) < MaxQueue
    /\ rx' = Append(rx, ev)
    /\ produced' = produced + 1
    /\ UNCHANGED << created, reply >>
    /\ UNCHANGED << BACKEND_READY, emitted, setupPc, spawnResult, child,
                    childCode, monPc, cur, pollPc, attempt, requests, healthOk >>

(***************************************************************************)
(* The output-monitor task.                                                *)
(***************************************************************************)
\* Variant: the text of an Error event is scanned for the markers as well.
DispatchErrorScanned(event) ==
    CASE event.kind \in { "Stdout", "Stderr", "Error" } ->
            IF IsReadyLine(from_utf8_lossy(event.line))
                THEN "store_ready" ELSE "recv"
      [] event.kind = "Terminated" -> "store_term"
      [] OTHER -> "recv"

\* Variant: the Stderr arm only logs the line.
DispatchStdoutOnly(event) ==
    CASE event.kind = "Stdout" ->
            IF IsReadyLine(from_utf8_lossy(event.line))
                THEN "store_ready" ELSE "recv"
      [] event.kind = "Terminated" -> "store_term"
      [] OTHER -> "recv"

\* The match on the received event: the arm taken, as the monitor's next
\* position.
Dispatch(event) ==
    CASE event.kind = "Stdout" ->
            IF IsReadyLine(from_utf8_lossy(event.line))
                THEN "store_ready" ELSE "recv"
      [] event.kind = "Stderr" ->
            IF IsReadyLine(from_utf8_lossy(event.line))
                THEN "store_ready" ELSE "recv"
      [] event.kind = "Error" -> "recv"
      [] event.kind = "Terminated" -> "store_term"
      [] OTHER -> "recv"

MonitorRecv ==
    /\ monPc = "recv"
    /\ rx # << >>
    /\ rx' = Tail(rx)
    /\ monPc' = Dispatch(Head(rx))
    /\ cur' = IF Dispatch(Head(rx)) = "recv" THEN NoEvent ELSE Head(rx)
    /\ UNCHANGED << created, reply >>
    /\ UNCHANGED << BACKEND_READY, emitted, setupPc, spawnResult, child,
                    childCode, produced, pollPc, attempt, requests, healthOk >>

MonitorStoreReady ==
    /\ monPc = "store_ready"
    /\ BACKEND_READY' = TRUE
    /\ monPc' = "emit_ready"
    /\ UNCHANGED << created, reply >>
    /\ UNCHANGED << emitted, setupPc, spawnResult, child, childCode, produced,
                    rx, cur, pollPc, attempt, requests, healthOk >>

MonitorEmitReady ==
    /\ monPc = "emit_ready"
    /\ emitted' = Emit("ready", TRUE)
    /\ monPc' = "recv"
    /\ cur' = NoEvent
    /\ UNCHANGED << created, reply >>
    /\ UNCHANGED << BACKEND_READY, setupPc, spawnResult, child, childCode,
                    produced, rx, pollPc, attempt, requests, healthOk >>

MonitorStoreTerminated ==
    /\ monPc = "store_term"
    /\ BACKEND_READY' = FALSE
    /\ monPc' = "emit_term"
    /\ UNCHANGED << created, reply >>
    /\ UNCHANGED << emitted, setupPc, spawnResult, child, childCode, produced,
                    rx, cur, pollPc, attempt, requests, healthOk >>

\* Variant: the Terminated arm lacks its break.
MonitorEmitTerminatedNoBreak ==
    /\ monPc = "emit_term"
    /\ emitted' = Emit("terminated", cur.code)
    /\ monPc' = "recv"
    /\ cur' = NoEvent
    /\ UNCHANGED << created, reply >>
    /\ UNCHANGED << BACKEND_READY, setupPc, spawnResult, child, childCode,
                    produced, rx, pollPc, attempt, requests, healthOk >>

\* emit, then break: the task ends.
MonitorEmitTerminated ==
    /\ monPc = "emit_term"
    /\ emitted' = Emit("terminated", cur.code)
    /\ monPc' = "done"
    /\ cur' = NoEvent
    /\ UNCHANGED << created, reply >>
    /\ UNCHANGED << BACKEND_READY, setupPc, spawnResult, child, childCode,
                    produced, rx, pollPc, attempt, requests, healthOk >>

Monitor ==
    \/ MonitorRecv
    \/ MonitorStoreReady
    \/ MonitorEmitReady
    \/ MonitorStoreTerminated
    \/ MonitorEmitTerminated

(***************************************************************************)
(* The health-poll task.                                                   *)
(***************************************************************************)
\* Variant: a 2xx answer is treated like any other answer.
AfterAttemptNoReturn(n, resp) ==
    IF n < MaxAttempts THEN "request" ELSE "emit_failed"

\* Variant: the loop runs one iteration too many (1..=31).
AfterAttemptOneMore(n, resp) ==
    IF resp = "success" THEN "store"
    ELSE IF n < MaxAttempts + 1 THEN "request"
    ELSE "emit_failed"

\* Where one iteration of the loop of wait_for_backend_ready leads: the
\* return of true, the next iteration, or the return of false.
AfterAttempt(n, resp) ==
    IF resp = "success" THEN "store"
    ELSE IF n < MaxAttempts THEN "request"
    ELSE "emit_failed"

\* One iteration: send, match on the answer, and (unless it returned) sleep.
PollAttempt(resp) ==
    /\ pollPc = "request"
    /\ requests' = requests + 1
    /\ pollPc' = AfterAttempt(attempt, resp)
    /\ healthOk' = IF resp = "success" THEN attempt ELSE healthOk
    /\ attempt' = IF AfterAttempt(attempt, resp) = "request"
                    THEN attempt + 1 ELSE attempt
    /\ UNCHANGED << created, reply >>
    /\ UNCHANGED << BACKEND_READY, emitted, setupPc, spawnResult, child,
                    childCode, produced, rx, monPc, cur >>

PollStoreReady ==
    /\ pollPc = "store"
    /\ BACKEND_READY' = TRUE
    /\ pollPc' = "emit_ready"
    /\ UNCHANGED << created, reply >>
    /\ UNCHANGED << emitted, setupPc, spawnResult, child, childCode, produced,
                    rx, monPc, cur, attempt, requests, healthOk >>

\* Variant: the else is missing, the failure branch runs as well.
PollEmitReadyThenFailed ==
    /\ pollPc = "emit_ready"
    /\ emitted' = Emit("ready", TRUE)
    /\ pollPc' = "emit_failed"
    /\ UNCHANGED << created, reply >>
    /\ UNCHANGED << BACKEND_READY, setupPc, spawnResult, child, childCode,
                    produced, rx, monPc, cur, attempt, requests, healthOk >>

PollEmitReady ==
    /\ pollPc = "emit_ready"
    /\ emitted' = Emit("ready", TRUE)
    /\ pollPc' = "done"
    /\ UNCHANGED << created, reply >>
    /\ UNCHANGED << BACKEND_READY, setupPc, spawnResult, child, childCode,
                    produced, rx, monPc, cur, attempt, requests, healthOk >>

\* Variant: the else branch also writes the flag.
PollEmitFailedResets ==
    /\ pollPc = "emit_failed"
    /\ BACKEND_READY' = FALSE
    /\ emitted' = Emit("failed", "Backend failed to start")
    /\ pollPc' = "done"
    /\ UNCHANGED << created, reply >>
    /\ UNCHANGED << setupPc, spawnResult, child, childCode, produced, rx,
                    monPc, cur, attempt, requests, healthOk >>

\* Variant: exhaustion is only logged.
PollFailedSilent ==
    /\ pollPc = "emit_failed"
    /\ pollPc' = "done"
    /\ UNCHANGED << created, reply >>
    /\ UNCHANGED << BACKEND_READY, emitted, setupPc, spawnResult, child,
                    childCode, produced, rx, monPc, cur, attempt, requests,
                    healthOk >>

PollEmitFailed ==
    /\ pollPc = "emit_failed"
    /\ emitted' = Emit("failed", "Backend failed to start")
    /\ pollPc' = "done"
    /\ UNCHANGED << created, reply >>
    /\ UNCHANGED << BACKEND_READY, setupPc, spawnResult, child, childCode,
                    produced, rx, monPc, cur, attempt, requests, healthOk >>

Poll ==
    \/ \E resp \in Responses : PollAttempt(resp)
    \/ PollStoreReady
    \/ PollEmitReady
    \/ PollEmitFailed

Setup ==
    \/ \E outcome \in SpawnOutcomes : SpawnBackend(outcome)
    \/ StartPoll

Child ==
    \/ \E ev \in OutputEvents : ChildOutput(ev)
    \/ \E code \in ExitCodes : ChildExit(code)
    \/ \E ev \in OutputEvents : LateOutput(ev)

(***************************************************************************)
(* The commands the frontend invokes.  Each returns at once; none is       *)
(* fallible.                                                               *)
(***************************************************************************)
Invoke(cmd, value) ==
    /\ reply' = Reply(cmd, value)
    /\ UNCHANGED << BACKEND_READY, emitted, setupPc, spawnResult, child,
                    childCode, produced, rx, monPc, cur, pollPc, attempt,
                    requests, healthOk, created >>

InvokeGetBackendUrl == Invoke("get_backend_url", get_backend_url)

InvokeGetWsUrl == Invoke("get_ws_url", get_ws_url)

InvokeIsBackendReady == Invoke("is_backend_ready", json_bool(is_backend_ready))

Query ==
    \/ InvokeGetBackendUrl
    \/ InvokeGetWsUrl
    \/ InvokeIsBackendReady

Next == Setup \/ Child \/ Monitor \/ Poll

Spec == Init /\ [][Next]_vars

\* The runtime schedules every spawned task and the setup closure; every
\* health request completes (it carries a 2 s timeout).  The sidecar is under
\* no obligation to print or to exit.
FairSpec ==
    Spec /\ WF_vars(Setup) /\ WF_vars(Monitor) /\ WF_vars(Poll)

\* The supervisor together with a frontend that invokes the commands.  The
\* commands write nothing the supervisor reads, so the supervisor's own
\* properties are checked under Spec and FairSpec, where reply stays as it is.
QueryNext == Next \/ Query

QuerySpec == Init /\ [][QueryNext]_vars

TypeOK ==
    /\ BACKEND_READY \in BOOLEAN
    /\ setupPc \in { "spawn", "start_poll", "done" }
    /\ spawnResult \in SpawnOutcomes \cup { "none" }
    /\ child \in { "none", "running", "exited" }
    /\ childCode \in ExitCodes
    /\ produced \in 0..MaxOutputs
    /\ Len(rx) <= MaxQueue
    /\ monPc \in { "none", "recv", "store_ready", "emit_ready", "store_term",
                   "emit_term", "done" }
    /\ pollPc \in { "none", "request", "store", "emit_ready", "emit_failed",
                    "done" }
    /\ attempt \in 0..MaxAttempts
    /\ requests \in 0..MaxAttempts
    /\ healthOk \in 0..MaxAttempts
    /\ created \in [calls : 0..1, children : 0..1, monitors : 0..1]
    /\ reply.cmd \in { "none", "get_backend_url", "get_ws_url",
                       "is_backend_ready" }

(***************************************************************************)
(* Properties.                                                             *)
(***************************************************************************)
\* The output events that carry a readiness marker, listed by hand.
ReadyEvents ==
    { Stdout(LineUvicorn), Stdout(LineStartup),
      Stderr(LineUvicorn), Stderr(LineStartup) }

\* Both background tasks have run to completion (or were never started).
RunComplete ==
    /\ setupPc = "done"
    /\ pollPc = "done"
    /\ monPc \in { "none", "done" }

\* The monitor has executed the store of the Terminated arm.
ExitProcessed == monPc \in { "emit_term", "done" }

\* C1: in a complete run exactly one readiness/failure signal was published:
\* the "backend-ready" and "backend-failed" events together number one.
C1_ExactlyOneSignal ==
    RunComplete => Count("ready") + Count("failed") = 1

\* C2: once status is Ready and "backend-ready" has been emitted, no step
\* emits "backend-ready" again (a later readiness signal is a no-op).
C2_SecondSignalNoOp ==
    [][(BACKEND_READY /\ Count("ready") >= 1)
            => Count("ready")' = Count("ready")]_vars

\* C3: once the monitor has processed the exit notification,
\* is_backend_ready returns false in every later state.
C3_NotReadyAfterExit ==
    ExitProcessed => ~is_backend_ready

\* C4: when the endpoint first answers 2xx on attempt k, the poll task has
\* sent exactly k requests, has left the loop for good, and has stored Ready
\* (status is Ready unless the monitor has since processed the child's exit).
C4_StopAtFirstSuccess ==
    healthOk > 0 =>
        /\ healthOk <= MaxAttempts
        /\ requests = healthOk
        /\ pollPc \in { "store", "emit_ready", "done" }
        /\ pollPc # "store" => (BACKEND_READY \/ ExitProcessed)

C4_Witness ==
    /\ healthOk = 3
    /\ requests = 3
    /\ pollPc = "done"
    /\ BACKEND_READY

\* C5: "backend-failed" is emitted only after exactly 30 requests, and from
\* then on status is NotReady.
C5_FailedMeansNotReady ==
    Count("failed") >= 1 => (requests = MaxAttempts /\ ~BACKEND_READY)

\* C6: "backend-terminated" is emitted at most once, carries the child's exit
\* code, follows the store of not-ready, and is emitted after every exit.
C6_TerminatedOnce ==
    /\ [](/\ Count("terminated") <= 1
          /\ Count("terminated") = 1 =>
                /\ child = "exited"
                /\ emitted.terminated[1] = childCode
                /\ monPc = "done")
    /\ [][(monPc = "store_term" /\ monPc' # monPc)
            => (~BACKEND_READY' /\ monPc' = "emit_term")]_vars
    /\ (child = "exited") ~> (Count("terminated") = 1)

C6_Witness ==
    /\ Count("terminated") = 1
    /\ emitted.terminated[1] = Some(1)
    /\ childCode = Some(1)
    /\ monPc = "done"

\* C7: receiving one event leads the monitor to store Ready and emit
\* "backend-ready" exactly when the event is a stdout or stderr line with a
\* marker; any other line and an Error event change neither status nor the
\* emitted events and leave the monitor waiting for the next event.
C7_ReadyIffMarker ==
    /\ [][Len(rx') < Len(rx) =>
            /\ (monPc' = "store_ready") <=> (Head(rx) \in ReadyEvents)
            /\ UNCHANGED << BACKEND_READY, emitted >>
            /\ (Head(rx) \notin ReadyEvents /\ Head(rx).kind # "Terminated")
                    => monPc' = "recv"]_vars
    /\ [][(monPc = "store_ready" /\ monPc' # monPc)
            => (BACKEND_READY' /\ monPc' = "emit_ready")]_vars
    /\ [][(monPc = "emit_ready" /\ monPc' # monPc)
            => (Count("ready")' = Count("ready") + 1 /\ monPc' = "recv")]_vars
    /\ [](monPc \in { "store_ready", "emit_ready" } => cur \in ReadyEvents)

C7_Witness ==
    /\ monPc = "emit_ready"
    /\ cur = Stderr(LineStartup)
    /\ BACKEND_READY
    /\ healthOk = 0

\* A marker line is the next event the waiting monitor receives.
MarkerDelivered == monPc = "recv" /\ rx # << >> /\ Head(rx) \in ReadyEvents

\* Status is Ready, or the child has exited (the only way it is reset).
ReadyWhileAlive == BACKEND_READY \/ child = "exited"

\* C8: a 2xx answer of the health endpoint, and likewise a marker line
\* received by the monitor, each alone leads to status Ready and to a
\* "backend-ready" event.
C8_EitherPathSuffices ==
    /\ (pollPc = "store" \/ MarkerDelivered) ~> BACKEND_READY
    /\ (pollPc = "store" \/ MarkerDelivered)
            ~> (Count("ready") >= 1 /\ ReadyWhileAlive)

C8_Witness ==
    /\ healthOk > 0
    /\ child = "running"
    /\ produced = 0
    /\ BACKEND_READY
    /\ emitted.ready = << TRUE >>

SpawnFailed == spawnResult \in { "ErrSidecar", "ErrSpawn" }

\* C9: when spawn_backend returns an error no child and no monitor exist,
\* the call changed neither status nor the emitted events, and setup still
\* completes and starts the health-poll task.
C9_SpawnFailureNonFatal ==
    /\ [](SpawnFailed =>
            /\ child = "none"
            /\ monPc = "none"
            /\ rx = << >>
            /\ Count("terminated") = 0
            /\ setupPc = "start_poll" =>
                    (~BACKEND_READY /\ Count("ready") = 0
                        /\ Count("failed") = 0 /\ pollPc = "none")
            /\ setupPc = "done" => pollPc # "none")
    /\ [][(setupPc = "spawn" /\ SpawnFailed')
            => UNCHANGED << BACKEND_READY, emitted, child, monPc >>]_vars
    /\ SpawnFailed ~> (setupPc = "done" /\ pollPc # "none")

C9_Witness ==
    /\ spawnResult = "ErrSpawn"
    /\ setupPc = "done"
    /\ pollPc = "request"
    /\ requests = 2

\* C10: a run in which status never becomes Ready eventually emits
\* "backend-failed" or "backend-terminated".
C10_FailureEndsInEvent ==
    ([]~BACKEND_READY) => <>(Count("failed") >= 1 \/ Count("terminated") >= 1)

C10_Witness ==
    /\ SpawnFailed
    /\ ~BACKEND_READY
    /\ Count("failed") = 1
    /\ Count("ready") = 0

\* C11: the health-poll task reaches its end, and it never sends more than
\* 30 requests, whatever the endpoint answers.
C11_PollTerminates ==
    /\ [](requests <= 30)
    /\ [](pollPc = "done" => (healthOk > 0 \/ requests = 30))
    /\ (pollPc = "request") ~> (pollPc = "done")

C11_Witness ==
    /\ pollPc = "done"
    /\ requests = 30
    /\ healthOk = 0
    /\ emitted.failed = << "Backend failed to start" >>

\* Everything but the reply handed to the frontend.
supervisor ==
    << BACKEND_READY, emitted, setupPc, spawnResult, child, childCode,
       produced, rx, monPc, cur, pollPc, attempt, requests, healthOk,
       created >>

\* C12: the three commands can be invoked in every state; a step that hands
\* a reply to the frontend changes nothing else, and the reply is the current
\* flag, "http://localhost:8765" or "ws://localhost:8765".
C12_QueriesArePureReads ==
    /\ [](ENABLED InvokeGetBackendUrl /\ ENABLED InvokeGetWsUrl
            /\ ENABLED InvokeIsBackendReady)
    /\ [][reply' # reply =>
            /\ UNCHANGED supervisor
            /\ reply'.cmd = "is_backend_ready" =>
                    reply'.value = (IF BACKEND_READY THEN "true" ELSE "false")
            /\ reply'.cmd = "get_backend_url" =>
                    reply'.value = "http://localhost:8765"
            /\ reply'.cmd = "get_ws_url" =>
                    reply'.value = "ws://localhost:8765"
            /\ reply'.cmd # "none"]_vars

C12_Witness ==
    /\ reply = Reply("is_backend_ready", "true")
    /\ BACKEND_READY
    /\ child = "running"
    /\ Count("ready") = 1

\* C13: spawn_backend runs once per application run and is not run again
\* after a failure or after the child's exit; never more than one child and
\* one monitor task are created, and none when the spawn failed.
C13_SpawnOnce ==
    /\ [](/\ created.calls <= 1
          /\ created.children <= 1
          /\ created.monitors <= 1
          /\ setupPc # "spawn" => created.calls = 1
          /\ SpawnFailed => (created.children = 0 /\ created.monitors = 0)
          /\ spawnResult = "Ok" =>
                (created.children = 1 /\ created.monitors = 1))
    /\ [][setupPc # "spawn" => created' = created]_vars

C13_Witness ==
    /\ created = [calls |-> 1, children |-> 1, monitors |-> 1]
    /\ child = "exited"
    /\ monPc = "done"
    /\ pollPc = "done"

\* The monitor has received the exit notification.
TermReceived == monPc \in { "store_term", "emit_term", "done" }

\* C14: from the receipt of the exit notification on the monitor takes no
\* further event from the channel and ends; status is set to Ready and
\* "backend-ready" is emitted from then on by the health-poll task alone, so
\* a marker line queued behind the notification has no effect.
C14_MonitorStopsAtExit ==
    /\ [][TermReceived =>
            /\ Len(rx') >= Len(rx)
            /\ TermReceived'
            /\ (~BACKEND_READY /\ BACKEND_READY') => pollPc = "store"
            /\ Count("ready")' # Count("ready") => pollPc = "emit_ready"]_vars
    /\ [][monPc = "done" => (monPc' = "done" /\ cur' = NoEvent)]_vars
    /\ TermReceived ~> (monPc = "done")

C14_Witness ==
    /\ monPc = "done"
    /\ rx # << >>
    /\ Head(rx) = Stdout(LineUvicorn)
    /\ pollPc = "done"
    /\ ~BACKEND_READY
    /\ Count("ready") = 0

\* C15: status is NotReady at the start, and it turns Ready only by the
\* monitor's store for a marker line it received or by the poll task's store
\* after a 2xx answer; so whenever it is Ready one of the two has happened.
C15_ReadyOnlyAfterSignal ==
    /\ [](setupPc = "spawn" => ~BACKEND_READY)
    /\ [][(~BACKEND_READY /\ BACKEND_READY') =>
            \/ pollPc = "store" /\ healthOk > 0
            \/ monPc = "store_ready" /\ cur \in ReadyEvents]_vars
    /\ [](BACKEND_READY =>
            \/ healthOk > 0
            \/ monPc = "emit_ready" /\ cur \in ReadyEvents
            \/ Count("ready") >= 1)

C15_Witness ==
    /\ BACKEND_READY
    /\ pollPc = "emit_ready"
    /\ healthOk > 0
    /\ produced = 0
    /\ Count("ready") = 0

\* C16: the only step that takes status from Ready to not-ready is the
\* monitor's store for the exit notification; lines without a marker, Error
\* events, failed health attempts, the exhaustion of the poll budget and the
\* frontend's commands leave a Ready status Ready.
C16_ReadyStableWhileAlive ==
    [][(BACKEND_READY /\ ~BACKEND_READY') =>
        /\ monPc = "store_term"
        /\ monPc' = "emit_term"
        /\ cur.kind = "Terminated"
        /\ child = "exited"]_vars

C16_Witness ==
    /\ BACKEND_READY
    /\ child = "running"
    /\ pollPc = "done"
    /\ Count("failed") = 1
    /\ produced = MaxOutputs
    /\ reply = Reply("is_backend_ready", "true")

\* A step of the started health-poll task.
PollStep == pollPc # "none" /\ (pollPc' # pollPc \/ requests' # requests)

\* C17: the health-poll task emits nothing while it polls and one event when
\* the loop has ended: after a 2xx answer it stores Ready and emits
\* "backend-ready", otherwise it emits "backend-failed" and leaves status
\* alone; after that one event it takes no further step.
C17_PollEmitsOnce ==
    /\ [][PollStep =>
            /\ (emitted' # emitted) <=> pollPc \in { "emit_ready", "emit_failed" }
            /\ pollPc = "request" => BACKEND_READY' = BACKEND_READY
            /\ pollPc = "store" =>
                    (healthOk > 0 /\ BACKEND_READY' /\ pollPc' = "emit_ready")
            /\ pollPc = "emit_ready" =>
                    /\ healthOk > 0
                    /\ emitted' = [emitted EXCEPT !.ready = Append(@, TRUE)]
                    /\ BACKEND_READY' = BACKEND_READY
                    /\ pollPc' = "done"
            /\ pollPc = "emit_failed" =>
                    /\ healthOk = 0
                    /\ requests = 30
                    /\ emitted' = [emitted EXCEPT !.failed =
                                        Append(@, "Backend failed to start")]
                    /\ BACKEND_READY' = BACKEND_READY
                    /\ pollPc' = "done"]_vars
    /\ [][pollPc = "done" => (pollPc' = "done" /\ requests' = requests)]_vars
    /\ [](/\ Count("failed") <= 1
          /\ Count("failed") = 1 => (healthOk = 0 /\ pollPc = "done")
          /\ pollPc # "done" => Count("failed") = 0)

C17_Witness ==
    /\ pollPc = "done"
    /\ healthOk > 0
    /\ child = "none"
    /\ BACKEND_READY
    /\ emitted = [ready |-> << TRUE >>, failed |-> << >>, terminated |-> << >>]

====
